---- MODULE Spec2Model ----
(***************************************************************************)
(* Apna SAHE backend: the notes service (upload / delete with the points   *)
(* transaction), the auth service (e-mail domain validation), the plain    *)
(* CRUD services and the Express endpoint that deletes a note's file from  *)
(* the media host.  The managed platform (document database, blob storage, *)
(* auth provider, media host) is modelled by the state it holds and by the *)
(* outcome of every call the code awaits: success, or a platform failure.  *)
(*                                                                         *)
(* Every invocation of a service method or of the endpoint is a "call"     *)
(* c \in Calls.  A call moves from one await to the next; calls interleave *)
(* at their awaits, as the promises of one JavaScript event loop do.       *)
(***************************************************************************)
EXTENDS Integers, Sequences, FiniteSets, TLC

(***************************************************************************)
(* Bounds of the model.                                                    *)
(***************************************************************************)
MaxNotes == 3          \* documents addDoc may create in the notes collection
MaxDocs == 2           \* documents addDoc may create in the other collections
MaxClock == 1          \* Date.now() ranges over 0..MaxClock
MaxAttempts == 2       \* attempts runTransaction makes before it gives up

\* The two invocations of one behaviour; they may overlap or follow each other.
Calls == {1, 2}
\* Document ids of the notes collection: 1..MaxNotes are the ids addDoc hands
\* out, 0 is a document the collection may hold from the start.
NoteIds == 0..MaxNotes

(***************************************************************************)
(* Strings the code computes on are sequences of characters.               *)
(***************************************************************************)
Upper == <<"A", "C", "E", "I", "N", "R", "S", "V", "B">>
Lower == <<"a", "c", "e", "i", "n", "r", "s", "v", "b">>

LowerChar(ch) ==
  IF \E i \in 1..Len(Upper) : Upper[i] = ch
  THEN Lower[CHOOSE i \in 1..Len(Upper) : Upper[i] = ch]
  ELSE ch

toLowerCase(s) == [i \in 1..Len(s) |-> LowerChar(s[i])]

endsWith(s, suffix) ==
  /\ Len(s) >= Len(suffix)
  /\ SubSeq(s, Len(s) - Len(suffix) + 1, Len(s)) = suffix

includes(s, sub) ==
  \E i \in 1..(Len(s) - Len(sub) + 1) : SubSeq(s, i, i + Len(sub) - 1) = sub

Undefined == "undefined"

Max(a, b) == IF a >= b THEN a ELSE b

(***************************************************************************)
(* State.                                                                  *)
(*   users, notes     the 'users' and 'notes' collections of the database  *)
(*   nextNoteId       the next automatic document id addDoc hands out      *)
(*   storage          blob storage: path -> the upload that wrote the file *)
(*   authUsers        accounts of the auth provider                        *)
(*   media            public ids the media host holds                      *)
(*   docs             the facilities / events / queries collections        *)
(*   pc, loc, result  each call's position, locals and settled promise     *)
(*   log              the platform calls each call has issued, in order    *)
(***************************************************************************)
VARIABLES users, notes, nextNoteId, storage, authUsers, media, docs,
          pc, loc, result, log

vars == <<users, notes, nextNoteId, storage, authUsers, media, docs,
          pc, loc, result, log>>

platform == <<users, notes, nextNoteId, storage, authUsers, media, docs>>

(***************************************************************************)
(* Documents.                                                              *)
(***************************************************************************)
UIDs == {"u1", "u2", "a1", "g1"}

NoUser == [exists |-> FALSE, role |-> Undefined, email |-> <<>>,
           points |-> 0, notesUploaded |-> 0, ver |-> 0, rank |-> 0]

UserDoc(role, email) ==
  [exists |-> TRUE, role |-> role, email |-> email,
   points |-> 0, notesUploaded |-> 0, ver |-> 1, rank |-> 0]

NoNote == [exists |-> FALSE, uploaderId |-> Undefined,
           uploadedByRole |-> Undefined, uploaderRole |-> Undefined,
           filePath |-> <<>>, cloudinaryPublicId |-> Undefined]

Branches == {"cse"}
Semesters == {"3"}
Subjects == {"ds"}

FilePath(branch, semester, subject, timestamp) ==
  <<"notes", branch, semester, subject, timestamp>>

AllPaths ==
  {FilePath(b, s, j, t) : b \in Branches, s \in Semesters, j \in Subjects,
                          t \in 0..MaxClock} \cup {<<"notes", "legacy">>}

\* A document of the facilities, events or queries collection.  An id that
\* was given out stays created: addDoc never gives it out again.
DocIds == 1..MaxDocs
NoDoc == [created |-> FALSE, exists |-> FALSE, coll |-> "", status |-> "",
          date |-> 0]
NoDocs == [d \in DocIds |-> NoDoc]

(***************************************************************************)
(* A call's locals and its promise.                                        *)
(***************************************************************************)
NoRead == [read |-> FALSE, uid |-> Undefined, ver |-> 0]
NoWrite == [has |-> FALSE, uid |-> Undefined, points |-> 0, notesUploaded |-> 0]

NoFile == [type |-> <<>>, size |-> 0]

\* Claims of a verified ID token; an absent email is the empty string, which
\* is what (decoded.email || '') makes of it.
NoDecoded == [uid |-> Undefined, email |-> <<>>]

NoData == [field |-> "", value |-> 0]
NoEnv == [json |-> "unset", cloudName |-> FALSE, apiKey |-> FALSE,
          apiSecret |-> FALSE]

NoLoc ==
  [kind |-> "none", authHeader |-> <<>>, idToken |-> <<>>,
   decoded |-> NoDecoded, publicId |-> Undefined,
   grantServer |-> FALSE, grantService |-> FALSE,
   file |-> NoFile, uploaderId |-> Undefined, uploaderRole |-> Undefined,
   filePath |-> <<>>, noteId |-> 0, userId |-> Undefined, noteDoc |-> NoNote,
   userData |-> NoUser, attempts |-> 0, docId |-> 0,
   email |-> <<>>, coll |-> "", status |-> "",
   date |-> 0, today |-> 0, limitCount |-> 0, rows |-> <<>>,
   updateData |-> NoData, destroyResult |-> "",
   env |-> NoEnv, firebaseApp |-> FALSE, cloudinaryConfigured |-> FALSE,
   served |-> FALSE, points |-> 0,
   txRead |-> NoRead, txUpdate |-> NoWrite, txDelete |-> FALSE]

Pending == [status |-> "pending", value |-> 0, error |-> ""]
Resolved(v) == [status |-> "resolved", value |-> v, error |-> ""]
Rejected(e) == [status |-> "rejected", value |-> 0, error |-> e]

\* The error of a platform call that failed (network, permission, quota).
PlatformError == "platform-error"

\* throw: the call's promise rejects with e and the call ends.
Throw(c, e) ==
  /\ pc' = [pc EXCEPT ![c] = "done"]
  /\ result' = [result EXCEPT ![c] = Rejected(e)]

\* return: the call's promise resolves with v and the call ends.
Return(c, v) ==
  /\ pc' = [pc EXCEPT ![c] = "done"]
  /\ result' = [result EXCEPT ![c] = Resolved(v)]

Goto(c, label) ==
  /\ pc' = [pc EXCEPT ![c] = label]
  /\ UNCHANGED result

\* The platform calls a call has issued: the operation, its argument where a
\* claim reads it, and the error it raised to the caller ("" when it resolved).
Issue(c, op, arg, err) ==
  log' = [log EXCEPT ![c] = Append(@, [op |-> op, arg |-> arg, err |-> err])]

\* Mutant of Catch: the catch block throws an error of its own.
Catch_wrapped(c, error) == Throw(c, "Error")

\* catch (error) { console.error(...); throw error; }
Catch(c, error) == Throw(c, error)

\* An awaited platform call fails: it is logged with its error and the
\* method's catch block gets the error.
Fail(c, op, error) ==
  /\ Issue(c, op, "", error)
  /\ Catch(c, error)

(***************************************************************************)
(* NotesService.uploadNote                                                 *)
(***************************************************************************)
pdf == <<"p", "d", "f">>
maxSize == 10 * 1024 * 1024

FileTypes == {<<"a", "p", "p", "/", "p", "d", "f">>,
              <<"i", "m", "g", "/", "p", "n", "g">>,
              <<"x", "-", "p", "d", "f", "x">>}
FileSizes == {1, maxSize, maxSize + 1}
Files == {[type |-> t, size |-> z] : t \in FileTypes, z \in FileSizes}
\* The files of the specification that interleaves uploads and deletions: one
\* that passes both validations and one that fails each.
SomeFiles ==
  {[type |-> <<"a", "p", "p", "/", "p", "d", "f">>, size |-> maxSize],
   [type |-> <<"a", "p", "p", "/", "p", "d", "f">>, size |-> maxSize + 1],
   [type |-> <<"i", "m", "g", "/", "p", "n", "g">>, size |-> 1]}
Roles == {"student", "admin"}

\* Mutant of FileError: the size limit is exclusive.
FileError_exclusive(file) ==
  IF ~includes(file.type, pdf) THEN "Only PDF files are allowed"
  ELSE IF file.size >= maxSize THEN "File size should not exceed 10MB"
  ELSE ""

\* The two validations of uploadNote: the error thrown, "" when the file
\* passes.
FileError(file) ==
  IF ~includes(file.type, pdf) THEN "Only PDF files are allowed"
  ELSE IF file.size > maxSize THEN "File size should not exceed 10MB"
  ELSE ""

\* The note document uploadNote builds (title, pdfUrl, fileSize, fileName and
\* uploadedAt are carried along unread and are left out).
NewNote(l) ==
  [exists |-> TRUE, uploaderId |-> l.uploaderId,
   uploadedByRole |-> l.uploaderRole, uploaderRole |-> Undefined,
   filePath |-> l.filePath, cloudinaryPublicId |-> Undefined]

\* The call up to its first await: the two validations, then the file name
\* from timestamp = Date.now().  The services run in every client of the
\* portal, each with a clock of its own, so the timestamp is an input.
uploadNote(c, file, subject, branch, semester, uploaderId, uploaderRole, timestamp) ==
  /\ pc[c] = "idle"
  /\ UNCHANGED <<platform, log>>
  /\ loc' = [loc EXCEPT ![c] =
               [NoLoc EXCEPT !.kind = "uploadNote",
                             !.file = file,
                             !.uploaderId = uploaderId,
                             !.uploaderRole = uploaderRole,
                             !.filePath =
                                IF FileError(file) = "" 
                                THEN FilePath(branch, semester, subject,
                                              timestamp)
                                ELSE <<>>]]
  /\ IF FileError(file) # ""
     THEN Catch(c, FileError(file))
     ELSE Goto(c, "uploadBytes")

\* await uploadBytes(storageRef, file)
uploadBytes(c) ==
  /\ pc[c] = "uploadBytes"
  /\ UNCHANGED <<users, notes, nextNoteId, authUsers, media, docs, loc>>
  /\ \E ok \in BOOLEAN :
       IF ok
       THEN /\ storage' = [storage EXCEPT ![loc[c].filePath] = c]
            /\ Issue(c, "uploadBytes", "", "")
            /\ Goto(c, "getDownloadURL")
       ELSE /\ UNCHANGED storage
            /\ Fail(c, "uploadBytes", PlatformError)

\* await getDownloadURL(snapshot.ref); then runTransaction starts its first
\* attempt.
getDownloadURL(c) ==
  /\ pc[c] = "getDownloadURL"
  /\ UNCHANGED platform
  /\ \E ok \in BOOLEAN :
       IF ok
       THEN /\ Issue(c, "getDownloadURL", "", "")
            /\ Goto(c, "up_addDoc")
            /\ loc' = [loc EXCEPT ![c].attempts = 1]
       ELSE /\ Fail(c, "getDownloadURL", PlatformError)
            /\ UNCHANGED loc

\* await addDoc(notesCollection, note), inside the update function: addDoc is
\* not an operation of the transaction object, it writes at once.
up_addDoc(c) ==
  /\ pc[c] = "up_addDoc"
  /\ nextNoteId <= MaxNotes
  /\ UNCHANGED <<users, storage, authUsers, media, docs>>
  /\ \E ok \in BOOLEAN :
       IF ok
       THEN /\ notes' = [notes EXCEPT ![nextNoteId] = NewNote(loc[c])]
            /\ nextNoteId' = nextNoteId + 1
            /\ loc' = [loc EXCEPT ![c].docId = nextNoteId]
            /\ Issue(c, "addDoc", "", "")
            /\ Goto(c, IF loc[c].uploaderRole = "student"
                       THEN "up_get" ELSE "up_commit")
       ELSE /\ UNCHANGED <<notes, nextNoteId, loc>>
            /\ Fail(c, "addDoc", PlatformError)

\* await transaction.get(userRef); transaction.update(...) when the document
\* exists.
up_get(c) ==
  /\ pc[c] = "up_get"
  /\ UNCHANGED platform
  /\ \E ok \in BOOLEAN :
       IF ok
       THEN LET uid == loc[c].uploaderId
                userData == users[uid]
            IN /\ loc' = [loc EXCEPT
                    ![c].txRead = [read |-> TRUE, uid |-> uid,
                                   ver |-> userData.ver],
                    ![c].txUpdate =
                       IF userData.exists
                       THEN [has |-> TRUE, uid |-> uid,
                             points |-> userData.points + 10,
                             notesUploaded |-> userData.notesUploaded + 1]
                       ELSE NoWrite]
               /\ Issue(c, "transaction.get", "", "")
               /\ Goto(c, "up_commit")
       ELSE /\ UNCHANGED loc
            /\ Fail(c, "transaction.get", PlatformError)

(***************************************************************************)
(* runTransaction: the commit of one attempt.  The database validates that *)
(* every document the attempt read is unchanged; if not, the attempt is    *)
(* aborted and runTransaction runs the update function again, up to        *)
(* MaxAttempts times, before it rejects.  An aborted attempt that is run   *)
(* again raises nothing to the method.                                     *)
(***************************************************************************)
Conflict(l) == l.txRead.read /\ users[l.txRead.uid].ver # l.txRead.ver

ApplyUpdate(l) ==
  IF l.txUpdate.has
  THEN [users EXCEPT ![l.txUpdate.uid].points = l.txUpdate.points,
                     ![l.txUpdate.uid].notesUploaded = l.txUpdate.notesUploaded,
                     ![l.txUpdate.uid].ver = @ + 1]
  ELSE users

Retry(c, label) ==
  /\ loc' = [loc EXCEPT ![c].attempts = @ + 1, ![c].txRead = NoRead,
                        ![c].txUpdate = NoWrite, ![c].txDelete = FALSE]
  /\ Issue(c, "commit-aborted", "", "")
  /\ Goto(c, label)

up_commit(c) ==
  /\ pc[c] = "up_commit"
  /\ UNCHANGED <<notes, nextNoteId, storage, authUsers, media, docs>>
  /\ IF Conflict(loc[c])
     THEN /\ UNCHANGED users
          /\ IF loc[c].attempts < MaxAttempts
             THEN Retry(c, "up_addDoc")
             ELSE Fail(c, "runTransaction", "aborted") /\ UNCHANGED loc
     ELSE /\ UNCHANGED loc
          /\ \E ok \in BOOLEAN :
               IF ok
               THEN /\ users' = ApplyUpdate(loc[c])
                    /\ Issue(c, "commit", "", "")
                    /\ Return(c, loc[c].docId)
               ELSE /\ UNCHANGED users
                    /\ Fail(c, "runTransaction", PlatformError)

(***************************************************************************)
(* NotesService.deleteNote                                                 *)
(***************************************************************************)
deleteNote(c, noteId, userId) ==
  /\ pc[c] = "idle"
  /\ UNCHANGED <<platform, log>>
  /\ loc' = [loc EXCEPT ![c] = [NoLoc EXCEPT !.kind = "deleteNote",
                                             !.noteId = noteId,
                                             !.userId = userId]]
  /\ Goto(c, "getNoteById")

\* const noteDoc = await this.getNoteById(noteId)
getNoteById(c) ==
  /\ pc[c] = "getNoteById"
  /\ UNCHANGED platform
  /\ \E ok \in BOOLEAN :
       IF ~ok
       THEN Fail(c, "getDoc", PlatformError) /\ UNCHANGED loc
       ELSE /\ Issue(c, "getDoc", "", "")
            /\ IF notes[loc[c].noteId].exists
               THEN /\ loc' = [loc EXCEPT ![c].noteDoc = notes[loc[c].noteId]]
                    /\ Goto(c, "getCurrentUserData")
               ELSE Catch(c, "Note not found") /\ UNCHANGED loc

\* Mutant of isAuthorized: any caller with a role is let through.
isAuthorized_anyRole(noteDoc, userId, userData) ==
  noteDoc.uploaderId = userId \/ userData.role # Undefined

\* The owner-or-admin check of deleteNote.
isAuthorized(noteDoc, userId, userData) ==
  noteDoc.uploaderId = userId \/ userData.role = "admin"

\* const userData = await AuthService.getCurrentUserData(userId), then the
\* authorization check, then runTransaction starts its first attempt.
getCurrentUserData(c) ==
  /\ pc[c] = "getCurrentUserData"
  /\ UNCHANGED platform
  /\ \E ok \in BOOLEAN :
       IF ~ok
       THEN Fail(c, "getDoc", PlatformError) /\ UNCHANGED loc
       ELSE /\ Issue(c, "getDoc", "", "")
            /\ IF ~users[loc[c].userId].exists
               THEN Catch(c, "User data not found") /\ UNCHANGED loc
               ELSE IF ~isAuthorized(loc[c].noteDoc, loc[c].userId,
                                     users[loc[c].userId])
               THEN Catch(c, "You are not authorized to delete this note")
                    /\ UNCHANGED loc
               ELSE /\ loc' = [loc EXCEPT
                                 ![c].userData = users[loc[c].userId],
                                 ![c].attempts = 1]
                    /\ Goto(c, "del_deleteObject")

\* Mutant of PointsRole: the field uploadNote writes is read instead.
PointsRole_uploadedBy(noteDoc) == noteDoc.uploadedByRole

\* The role deleteNote reads to decide whether points are taken back:
\* noteDoc.uploaderRole.
PointsRole(noteDoc) == noteDoc.uploaderRole

\* The update function up to transaction.delete: deleteObject on the file
\* (a direct storage call, not an operation of the transaction), then the
\* buffered delete of the note document.
del_deleteObject(c) ==
  /\ pc[c] = "del_deleteObject"
  /\ UNCHANGED <<users, notes, nextNoteId, authUsers, media, docs>>
  /\ LET l == loc[c]
         next == IF PointsRole(l.noteDoc) = "student"
                 THEN "del_get" ELSE "del_commit"
     IN IF l.noteDoc.filePath # <<>>
        THEN \E ok \in BOOLEAN :
               IF ok /\ storage[l.noteDoc.filePath] # 0
               THEN /\ storage' = [storage EXCEPT ![l.noteDoc.filePath] = 0]
                    /\ loc' = [loc EXCEPT ![c].txDelete = TRUE]
                    /\ Issue(c, "deleteObject", "", "")
                    /\ Goto(c, next)
               ELSE /\ UNCHANGED <<storage, loc>>
                    /\ Fail(c, "deleteObject",
                            IF ok THEN "storage/object-not-found"
                                  ELSE PlatformError)
        ELSE /\ UNCHANGED <<storage, log>>
             /\ loc' = [loc EXCEPT ![c].txDelete = TRUE]
             /\ Goto(c, next)

\* await transaction.get(userRef); transaction.update(...) when the document
\* exists.
del_get(c) ==
  /\ pc[c] = "del_get"
  /\ UNCHANGED platform
  /\ \E ok \in BOOLEAN :
       IF ok
       THEN LET uid == loc[c].noteDoc.uploaderId
                userData == users[uid]
            IN /\ loc' = [loc EXCEPT
                    ![c].txRead = [read |-> TRUE, uid |-> uid,
                                   ver |-> userData.ver],
                    ![c].txUpdate =
                       IF userData.exists
                       THEN [has |-> TRUE, uid |-> uid,
                             points |-> Max(0, userData.points - 10),
                             notesUploaded |->
                                Max(0, userData.notesUploaded - 1)]
                       ELSE NoWrite]
               /\ Issue(c, "transaction.get", "", "")
               /\ Goto(c, "del_commit")
       ELSE /\ UNCHANGED loc
            /\ Fail(c, "transaction.get", PlatformError)

del_commit(c) ==
  /\ pc[c] = "del_commit"
  /\ UNCHANGED <<nextNoteId, storage, authUsers, media, docs>>
  /\ IF Conflict(loc[c])
     THEN /\ UNCHANGED <<users, notes>>
          /\ IF loc[c].attempts < MaxAttempts
             THEN Retry(c, "del_deleteObject")
             ELSE Fail(c, "runTransaction", "aborted") /\ UNCHANGED loc
     ELSE /\ UNCHANGED loc
          /\ \E ok \in BOOLEAN :
               IF ok
               THEN /\ users' = ApplyUpdate(loc[c])
                    /\ notes' = [notes EXCEPT ![loc[c].noteId] = NoNote]
                    /\ Issue(c, "commit", "", "")
                    /\ Return(c, 0)
               ELSE /\ UNCHANGED <<users, notes>>
                    /\ Fail(c, "runTransaction", PlatformError)

(***************************************************************************)
(* The notes service over a database that holds two students and an admin; *)
(* "g1" is an account without a user document.  The notes collection is    *)
(* shared with the portal's other clients (the endpoint reads a field,     *)
(* cloudinaryPublicId, that uploadNote never writes), so it starts either  *)
(* empty or with one note of student "u2" written by such a client, which  *)
(* carries the uploaderRole field deleteNote reads.                        *)
(***************************************************************************)
LegacyPath == <<"notes", "legacy">>
LegacyFile == 0 - 1

LegacyNote ==
  [exists |-> TRUE, uploaderId |-> "u2", uploadedByRole |-> "student",
   uploaderRole |-> "student", filePath |-> LegacyPath,
   cloudinaryPublicId |-> Undefined]

vrsec == <<"@", "v", "r", "s", "e", "c", ".", "a", "c", ".", "i", "n">>

InitCalls ==
  /\ pc = [c \in Calls |-> "idle"]
  /\ loc = [c \in Calls |-> NoLoc]
  /\ result = [c \in Calls |-> Pending]
  /\ log = [c \in Calls |-> <<>>]

InitUsers ==
  [u \in UIDs |->
     CASE u = "u1" -> UserDoc("student", <<"s">> \o vrsec)
       [] u = "u2" -> UserDoc("student", <<"b">> \o vrsec)
       [] u = "a1" -> UserDoc("admin", <<"a">> \o vrsec)
       [] OTHER -> NoUser]

InitNotes ==
  /\ \E legacy \in BOOLEAN :
       /\ users = IF legacy
                  THEN [InitUsers EXCEPT !["u2"].points = 10,
                                         !["u2"].notesUploaded = 1]
                  ELSE InitUsers
       /\ notes = [n \in NoteIds |->
                     IF legacy /\ n = 0 THEN LegacyNote ELSE NoNote]
       /\ storage = [f \in AllPaths |->
                       IF legacy /\ f = LegacyPath THEN LegacyFile ELSE 0]
  /\ nextNoteId = 1
  /\ authUsers = {}
  /\ media = {}
  /\ docs = NoDocs
  /\ InitCalls

NextNotes ==
  \/ \E c \in Calls, file \in SomeFiles, j \in Subjects,
        b \in Branches, s \in Semesters, u \in UIDs, r \in Roles,
        t \in 0..MaxClock :
        uploadNote(c, file, j, b, s, u, r, t)
  \/ \E c \in Calls : uploadBytes(c)
  \/ \E c \in Calls : getDownloadURL(c)
  \/ \E c \in Calls : up_addDoc(c)
  \/ \E c \in Calls : up_get(c)
  \/ \E c \in Calls : up_commit(c)
  \/ \E c \in Calls, n \in NoteIds, u \in UIDs : deleteNote(c, n, u)
  \/ \E c \in Calls : getNoteById(c)
  \/ \E c \in Calls : getCurrentUserData(c)
  \/ \E c \in Calls : del_deleteObject(c)
  \/ \E c \in Calls : del_get(c)
  \/ \E c \in Calls : del_commit(c)

Spec == InitNotes /\ [][NextNotes]_vars

\* Uploads alone, over every file type and size.
NextUpload ==
  \/ \E c \in Calls, file \in Files, j \in Subjects,
        b \in Branches, s \in Semesters, r \in Roles, t \in 0..MaxClock :
        uploadNote(c, file, j, b, s, "u1", r, t)
  \/ \E c \in Calls : uploadBytes(c)
  \/ \E c \in Calls : getDownloadURL(c)
  \/ \E c \in Calls : up_addDoc(c)
  \/ \E c \in Calls : up_get(c)
  \/ \E c \in Calls : up_commit(c)

SpecUpload == InitNotes /\ [][NextUpload]_vars

(***************************************************************************)
(* server.js: POST /api/cloudinary/delete-note-file                        *)
(***************************************************************************)
AdminEmailEnv == <<"A", "@", "s">>      \* process.env.ADMIN_EMAIL
ADMIN_EMAIL == toLowerCase(AdminEmailEnv)

Truthy(x) == x # Undefined /\ x # ""

IsSpace(ch) == ch \in {" ", "\t"}

\* authHeader.match(/^Bearer\s+(.+)$/i): whether it matches, and group 1.
\* Mutant of BearerMatch: no white space is asked for after the scheme.
BearerMatch_noSpace(h) ==
  /\ Len(h) >= 7
  /\ toLowerCase(SubSeq(h, 1, 6)) = <<"b", "e", "a", "r", "e", "r">>

BearerMatch(h) ==
  /\ Len(h) >= 8
  /\ toLowerCase(SubSeq(h, 1, 6)) = <<"b", "e", "a", "r", "e", "r">>
  /\ IsSpace(h[7])

BearerToken(h) ==
  LET k == CHOOSE n \in 1..(Len(h) - 6) :
             /\ \A i \in 7..(6 + n) : IsSpace(h[i])
             /\ (6 + n < Len(h) => ~IsSpace(h[7 + n]))
  IN IF 6 + k < Len(h) THEN SubSeq(h, 7 + k, Len(h))
     ELSE SubSeq(h, Len(h), Len(h))

\* admin.auth().verifyIdToken(idToken): the tokens the auth provider has
\* issued and the claims they carry; any other token is rejected.
IssuedTokens ==
  {[token |-> <<"1">>, uid |-> "u1", email |-> <<"s", "@", "v">>],
   [token |-> <<"2">>, uid |-> "a1", email |-> <<"a", "@", "S">>],
   [token |-> <<"3">>, uid |-> "u2", email |-> <<>>]}

TokenValid(t) == \E k \in IssuedTokens : k.token = t
Claims(t) ==
  LET k == CHOOSE k \in IssuedTokens : k.token = t
  IN [uid |-> k.uid, email |-> k.email]

Headers ==
  {<<>>,
   <<"B", "e", "a", "r", "e", "r", " ", "1">>,
   <<"b", "e", "a", "r", "e", "r", " ", "2">>,
   <<"B", "E", "A", "R", "E", "R", " ", "\t", "3">>,
   <<"B", "e", "a", "r", "e", "r", " ", "x">>,
   <<"B", "e", "a", "r", "e", "r", " ">>,
   <<"B", "e", "a", "r", "e", "r", "1", "1">>,
   <<"B", "a", "s", "i", "c", " ", "1", "1">>}

\* req.body?.noteId when the body names no note.
NoNoteId == 0 - 1

Respond(c, code, text) ==
  /\ pc' = [pc EXCEPT ![c] = "done"]
  /\ result' = [result EXCEPT ![c] =
                  [status |-> "response", value |-> code, error |-> text]]

isAdmin(decoded) == toLowerCase(decoded.email) = ADMIN_EMAIL

\* Mutant of isOwner: the two ids are tested for presence, not compared.
isOwner_present(decoded, uploaderId) ==
  Truthy(decoded.uid) /\ Truthy(uploaderId)

isOwner(decoded, uploaderId) ==
  Truthy(decoded.uid) /\ Truthy(uploaderId) /\ decoded.uid = uploaderId

\* if (!isAdmin && !isOwner) -> 403
Forbidden(decoded, uploaderId) ==
  ~isAdmin(decoded) /\ ~isOwner(decoded, uploaderId)

\* The handler up to its first await.
deleteNoteFile(c, authHeader, noteId) ==
  /\ pc[c] = "idle"
  /\ UNCHANGED <<platform, log>>
  /\ loc' = [loc EXCEPT ![c] =
               [NoLoc EXCEPT !.kind = "deleteNoteFile",
                             !.authHeader = authHeader,
                             !.noteId = noteId,
                             !.idToken = IF BearerMatch(authHeader)
                                         THEN BearerToken(authHeader)
                                         ELSE <<>>]]
  /\ IF ~BearerMatch(authHeader)
     THEN Respond(c, 401, "Missing Authorization Bearer token")
     ELSE Goto(c, "verifyIdToken")

\* Mutant of verifyIdToken: noteId is looked at before the token.
verifyIdToken_noteIdFirst(c) ==
  /\ pc[c] = "verifyIdToken"
  /\ UNCHANGED platform
  /\ IF loc[c].noteId = NoNoteId
     THEN /\ Respond(c, 400, "noteId is required")
          /\ UNCHANGED <<loc, log>>
     ELSE IF ~TokenValid(loc[c].idToken)
     THEN /\ Issue(c, "verifyIdToken", "", "auth/argument-error")
          /\ Respond(c, 500, "auth/argument-error")
          /\ UNCHANGED loc
     ELSE /\ Issue(c, "verifyIdToken", "", "")
          /\ loc' = [loc EXCEPT ![c].decoded = Claims(loc[c].idToken)]
          /\ Goto(c, "firestoreGet")

\* const decoded = await admin.auth().verifyIdToken(idToken), then the
\* noteId check.
verifyIdToken(c) ==
  /\ pc[c] = "verifyIdToken"
  /\ UNCHANGED platform
  /\ IF ~TokenValid(loc[c].idToken)
     THEN /\ Issue(c, "verifyIdToken", "", "auth/argument-error")
          /\ Respond(c, 500, "auth/argument-error")
          /\ UNCHANGED loc
     ELSE \E ok \in BOOLEAN :
            IF ~ok
            THEN /\ Issue(c, "verifyIdToken", "", PlatformError)
                 /\ Respond(c, 500, PlatformError)
                 /\ UNCHANGED loc
            ELSE /\ Issue(c, "verifyIdToken", "", "")
                 /\ loc' = [loc EXCEPT ![c].decoded = Claims(loc[c].idToken)]
                 /\ IF loc[c].noteId = NoNoteId
                    THEN Respond(c, 400, "noteId is required")
                    ELSE Goto(c, "firestoreGet")

\* const noteSnap = await admin.firestore().collection('notes').doc(noteId)
\* .get(), then the checks up to the await of destroy.
firestoreGet(c) ==
  /\ pc[c] = "firestoreGet"
  /\ UNCHANGED platform
  /\ \E ok \in BOOLEAN :
       IF ~ok
       THEN /\ Issue(c, "firestore.get", "", PlatformError)
            /\ Respond(c, 500, PlatformError)
            /\ UNCHANGED loc
       ELSE LET note == notes[loc[c].noteId]
            IN /\ Issue(c, "firestore.get", "", "")
               /\ IF ~note.exists
                  THEN Respond(c, 404, "Note not found") /\ UNCHANGED loc
                  ELSE /\ loc' = [loc EXCEPT
                                    ![c].noteDoc = note,
                                    ![c].publicId = note.cloudinaryPublicId]
                       /\ IF ~Truthy(note.cloudinaryPublicId)
                          THEN Respond(c, 400, "Note has no cloudinaryPublicId")
                          ELSE IF Forbidden(loc[c].decoded, note.uploaderId)
                          THEN Respond(c, 403,
                                       "Not authorized to delete this file")
                          ELSE Goto(c, "destroy")

\* Mutant of DestroyOk: only 'ok' counts as success.
DestroyOk_okOnly(r) == r = "ok"

\* !(result?.result !== 'ok' && result?.result !== 'not found')
DestroyOk(r) == r = "ok" \/ r = "not found"

\* `Cloudinary destroy failed: ${result?.result || 'unknown'}`
DestroyFailed(r) ==
  IF Truthy(r) THEN "Cloudinary destroy failed: " \o r
  ELSE "Cloudinary destroy failed: unknown"

\* What the media host may answer to destroy(publicId): 'ok' for a file it
\* holds, which it drops, 'not found' for one it does not hold, or an
\* answer of another kind, or none.
HostAnswers(publicId) ==
  {IF publicId \in media THEN "ok" ELSE "not found", "error", Undefined}

\* const result = await cloudinary.uploader.destroy(publicId, ...), then the
\* response; or the call throws.
destroy(c) ==
  /\ pc[c] = "destroy"
  /\ UNCHANGED <<users, notes, nextNoteId, storage, authUsers, docs>>
  /\ \/ \E r \in HostAnswers(loc[c].publicId) :
          /\ Issue(c, "destroy", loc[c].publicId, "")
          /\ media' = IF r = "ok" THEN media \ {loc[c].publicId} ELSE media
          /\ loc' = [loc EXCEPT ![c].destroyResult = r]
          /\ IF DestroyOk(r)
             THEN Respond(c, 200, r)
             ELSE Respond(c, 500, DestroyFailed(r))
     \/ /\ Issue(c, "destroy", loc[c].publicId, PlatformError)
        /\ UNCHANGED <<media, loc>>
        /\ Respond(c, 500, PlatformError)

\* The database the endpoint reads: a note of u1 and a note without
\* uploaderId, both with a file on the media host, and a note of u2 without.
ServerNotes ==
  [n \in NoteIds |->
     CASE n = 0 -> [NoNote EXCEPT !.exists = TRUE, !.uploaderId = "u1",
                                  !.cloudinaryPublicId = "p0"]
       [] n = 1 -> [NoNote EXCEPT !.exists = TRUE, !.uploaderId = "u2"]
       [] n = 2 -> [NoNote EXCEPT !.exists = TRUE,
                                  !.cloudinaryPublicId = "p2"]
       [] OTHER -> NoNote]

InitServer ==
  /\ users = InitUsers
  /\ notes = ServerNotes
  /\ nextNoteId = 1
  /\ storage = [f \in AllPaths |-> 0]
  /\ authUsers = {}
  /\ media \in SUBSET {"p0", "p2"}
  /\ docs = NoDocs
  /\ InitCalls

NextServer ==
  \/ \E c \in Calls, h \in Headers, n \in NoteIds \cup {NoNoteId} :
        deleteNoteFile(c, h, n)
  \/ \E c \in Calls : verifyIdToken(c)
  \/ \E c \in Calls : firestoreGet(c)
  \/ \E c \in Calls : destroy(c)

SpecServer == InitServer /\ [][NextServer]_vars

(***************************************************************************)
(* The two owner-or-admin checks side by side: one caller, with a user     *)
(* document, and one note are put to the endpoint's check and to           *)
(* deleteNote's.                                                           *)
(***************************************************************************)
CallerUids == {"u1", "u2", "a1"}
CallerEmails == {<<"a", "@", "S">>, <<"s", "@", "v">>, <<>>}
NoteUploaders == {"u1", "u2", Undefined}

authorize(c) ==
  /\ pc[c] = "idle"
  /\ UNCHANGED <<platform, log, result>>
  /\ pc' = [pc EXCEPT ![c] = "done"]
  /\ loc' = [loc EXCEPT
       ![c].grantServer =
          ~Forbidden(loc[c].decoded, loc[c].noteDoc.uploaderId),
       ![c].grantService =
          isAuthorized(loc[c].noteDoc, loc[c].userId, loc[c].userData)]

InitAuthz ==
  /\ users = InitUsers
  /\ notes = [n \in NoteIds |-> NoNote]
  /\ nextNoteId = 1
  /\ storage = [f \in AllPaths |-> 0]
  /\ authUsers = {}
  /\ media = {}
  /\ docs = NoDocs
  /\ pc = [c \in Calls |-> "idle"]
  /\ result = [c \in Calls |-> Pending]
  /\ log = [c \in Calls |-> <<>>]
  /\ loc \in [Calls ->
       {[NoLoc EXCEPT !.kind = "authorize",
                      !.decoded = [uid |-> u, email |-> e],
                      !.userId = u,
                      !.userData = UserDoc(r, e),
                      !.noteDoc = [NoNote EXCEPT !.exists = TRUE,
                                                 !.uploaderId = o]] :
          u \in CallerUids, e \in CallerEmails, r \in Roles,
          o \in NoteUploaders}]

NextAuthz == \E c \in Calls : authorize(c)

SpecAuthz == InitAuthz /\ [][NextAuthz]_vars

(***************************************************************************)
(* AuthService: validateEmail, signUpStudent, createAdmin, signIn.         *)
(***************************************************************************)
\* Mutant of validateEmail: the domain may occur anywhere in the email.
validateEmail_includes(email) == includes(toLowerCase(email), vrsec)

validateEmail(email) == endsWith(toLowerCase(email), vrsec)

StudentsOnly == "Only VRSEC students with @vrsec.ac.in email can register"
VrsecOnly == "Only VRSEC email addresses are allowed"

VRSEC == <<"@", "V", "R", "S", "E", "C", ".", "a", "c", ".", "i", "n">>

\* Emails a caller may pass: the domain in lower and in mixed case, with an
\* empty local part, as an infix, another domain, and the empty string.
Emails ==
  {<<"s">> \o vrsec, <<"S">> \o VRSEC, <<"b">> \o vrsec, vrsec,
   <<"s">> \o vrsec \o <<".", "c">>, <<"s", "@", "g">>, <<>>}

\* The method up to its first await.
signUpStudent(c, email) ==
  /\ pc[c] = "idle"
  /\ loc' = [loc EXCEPT ![c].kind = "signUpStudent", ![c].email = email]
  /\ UNCHANGED <<platform, log>>
  /\ IF ~validateEmail(email)
     THEN Catch(c, StudentsOnly)
     ELSE Goto(c, "createUser")

createAdmin(c, email) ==
  /\ pc[c] = "idle"
  /\ loc' = [loc EXCEPT ![c].kind = "createAdmin", ![c].email = email]
  /\ UNCHANGED <<platform, log>>
  /\ IF ~validateEmail(email)
     THEN Catch(c, VrsecOnly)
     ELSE Goto(c, "createUser")

signIn(c, email) ==
  /\ pc[c] = "idle"
  /\ loc' = [loc EXCEPT ![c].kind = "signIn", ![c].email = email]
  /\ UNCHANGED <<platform, log>>
  /\ IF ~validateEmail(email)
     THEN Catch(c, VrsecOnly)
     ELSE Goto(c, "signInWithEmail")

\* The provider keeps one account per email and compares emails in lower
\* case; a new account gets a uid no account has.
HasAccount(email) == \E a \in authUsers : a.email = toLowerCase(email)
AccountOf(email) == CHOOSE a \in authUsers : a.email = toLowerCase(email)
FreeUids == {u \in UIDs : \A a \in authUsers : a.uid # u}

\* await createUserWithEmailAndPassword(auth, email, password)
createUserWithEmailAndPassword(c) ==
  /\ pc[c] = "createUser"
  /\ UNCHANGED <<users, notes, nextNoteId, storage, media, docs>>
  /\ \/ /\ ~HasAccount(loc[c].email)
        /\ \E u \in FreeUids :
             /\ authUsers' =
                  authUsers \cup {[uid |-> u, email |-> toLowerCase(loc[c].email)]}
             /\ loc' = [loc EXCEPT ![c].userId = u]
        /\ Issue(c, "createUserWithEmailAndPassword", "", "")
        /\ Goto(c, "updateProfile")
     \/ /\ HasAccount(loc[c].email)
        /\ Fail(c, "createUserWithEmailAndPassword", "auth/email-already-in-use")
        /\ UNCHANGED <<authUsers, loc>>
     \/ /\ Fail(c, "createUserWithEmailAndPassword", PlatformError)
        /\ UNCHANGED <<authUsers, loc>>

\* await updateProfile(user, { displayName: name })
updateProfile(c) ==
  /\ pc[c] = "updateProfile"
  /\ UNCHANGED <<platform, loc>>
  /\ \/ Issue(c, "updateProfile", "", "") /\ Goto(c, "setDoc")
     \/ Fail(c, "updateProfile", PlatformError)

\* The user document of signUpStudent / createAdmin.
NewUser(l) ==
  UserDoc(IF l.kind = "createAdmin" THEN "admin" ELSE "student",
          toLowerCase(l.email))

\* await setDoc(doc(db, 'users', user.uid), userData); return
setDoc(c) ==
  /\ pc[c] = "setDoc"
  /\ UNCHANGED <<notes, nextNoteId, storage, authUsers, media, docs, loc>>
  /\ \/ /\ users' = [users EXCEPT ![loc[c].userId] = NewUser(loc[c])]
        /\ Issue(c, "setDoc", loc[c].userId, "")
        /\ Return(c, 0)
     \/ /\ Fail(c, "setDoc", PlatformError)
        /\ UNCHANGED users

\* await signInWithEmailAndPassword(auth, email, password)
signInWithEmailAndPassword(c) ==
  /\ pc[c] = "signInWithEmail"
  /\ UNCHANGED platform
  /\ \/ /\ HasAccount(loc[c].email)
        /\ loc' = [loc EXCEPT ![c].userId = AccountOf(loc[c].email).uid]
        /\ Issue(c, "signInWithEmailAndPassword", "", "")
        /\ Goto(c, "getUserDoc")
     \/ /\ Fail(c, "signInWithEmailAndPassword", "auth/invalid-credential")
        /\ UNCHANGED loc
     \/ /\ Fail(c, "signInWithEmailAndPassword", PlatformError)
        /\ UNCHANGED loc

\* await getDoc(doc(db, 'users', user.uid)); exists() check; return
getUserDoc(c) ==
  /\ pc[c] = "getUserDoc"
  /\ UNCHANGED platform
  /\ \/ /\ loc' = [loc EXCEPT ![c].userData = users[loc[c].userId]]
        /\ Issue(c, "getDoc", loc[c].userId, "")
        /\ IF ~users[loc[c].userId].exists
           THEN Catch(c, "User data not found in database")
           ELSE Return(c, 0)
     \/ /\ Fail(c, "getDoc", PlatformError)
        /\ UNCHANGED loc

(***************************************************************************)
(* InfrastructureService, EventService, QueryService: one database call    *)
(* each, inside try / catch (error) { console.error(...); throw error; }.  *)
(***************************************************************************)
Statuses == {"pending", "completed"}

\* Dates are 'YYYY-MM-DD' strings, which the database compares as strings:
\* the order of the days they name.  A day is its number.
EventDates == {1, 2, 3}

\* createFacility(facilityData) up to await addDoc(collection(db,
\* 'facilities'), facility).
createFacility(c) ==
  /\ pc[c] = "idle"
  /\ loc' = [loc EXCEPT ![c].kind = "createFacility",
                        ![c].coll = "facilities"]
  /\ UNCHANGED <<platform, log>>
  /\ Goto(c, "addDoc")

\* createEvent(eventData) up to await addDoc(collection(db, 'events'), event).
createEvent(c, date) ==
  /\ pc[c] = "idle"
  /\ loc' = [loc EXCEPT ![c].kind = "createEvent", ![c].coll = "events",
                        ![c].date = date]
  /\ UNCHANGED <<platform, log>>
  /\ Goto(c, "addDoc")

\* createQuery(queryData) up to await addDoc(collection(db, 'queries'),
\* query), with status: 'pending'.
createQuery(c) ==
  /\ pc[c] = "idle"
  /\ loc' = [loc EXCEPT ![c].kind = "createQuery", ![c].coll = "queries",
                        ![c].status = "pending"]
  /\ UNCHANGED <<platform, log>>
  /\ Goto(c, "addDoc")

FreeDocIds == {d \in DocIds : ~docs[d].created}

\* const docRef = await addDoc(...); return docRef.id
addDoc(c) ==
  /\ pc[c] = "addDoc"
  /\ UNCHANGED <<users, notes, nextNoteId, storage, authUsers, media, loc>>
  /\ \/ /\ FreeDocIds # {}
        /\ LET d == CHOOSE d \in FreeDocIds : \A e \in FreeDocIds : d <= e
           IN /\ docs' = [docs EXCEPT ![d] =
                    [created |-> TRUE, exists |-> TRUE, coll |-> loc[c].coll,
                     status |-> loc[c].status, date |-> loc[c].date]]
              /\ Issue(c, "addDoc", "", "")
              /\ Return(c, d)
     \/ /\ Fail(c, "addDoc", PlatformError)
        /\ UNCHANGED docs

\* updateQueryStatus(queryId, status) up to await updateDoc(queryRef, ...).
updateQueryStatus(c, queryId, status) ==
  /\ pc[c] = "idle"
  /\ loc' = [loc EXCEPT ![c].kind = "updateQueryStatus",
                        ![c].coll = "queries", ![c].docId = queryId,
                        ![c].status = status]
  /\ UNCHANGED <<platform, log>>
  /\ Goto(c, "updateDoc")

\* markQueryCompleted(queryId): await this.updateQueryStatus(queryId,
\* 'completed') inside a try / catch of its own.
markQueryCompleted(c, queryId) ==
  /\ pc[c] = "idle"
  /\ loc' = [loc EXCEPT ![c].kind = "markQueryCompleted",
                        ![c].coll = "queries", ![c].docId = queryId,
                        ![c].status = "completed"]
  /\ UNCHANGED <<platform, log>>
  /\ Goto(c, "updateDoc")

\* The document a reference of a collection points to.
DocAt(coll, id) == docs[id].exists /\ docs[id].coll = coll

\* await updateDoc(queryRef, { status, updatedAt }): the database rejects an
\* update of a document that does not exist.
updateDoc(c) ==
  /\ pc[c] = "updateDoc"
  /\ UNCHANGED <<users, notes, nextNoteId, storage, authUsers, media, loc>>
  /\ \/ /\ DocAt(loc[c].coll, loc[c].docId)
        /\ docs' = [docs EXCEPT ![loc[c].docId].status = loc[c].status]
        /\ Issue(c, "updateDoc", "", "")
        /\ Return(c, 0)
     \/ /\ ~DocAt(loc[c].coll, loc[c].docId)
        /\ Fail(c, "updateDoc", "not-found")
        /\ UNCHANGED docs
     \/ /\ Fail(c, "updateDoc", PlatformError)
        /\ UNCHANGED docs

\* deleteEvent(eventId) up to await deleteDoc(doc(db, 'events', eventId)).
deleteEvent(c, eventId) ==
  /\ pc[c] = "idle"
  /\ loc' = [loc EXCEPT ![c].kind = "deleteEvent", ![c].coll = "events",
                        ![c].docId = eventId]
  /\ UNCHANGED <<platform, log>>
  /\ Goto(c, "deleteDoc")

\* deleteFacility(facilityId) up to await deleteDoc(doc(db, 'facilities',
\* facilityId)).
deleteFacility(c, facilityId) ==
  /\ pc[c] = "idle"
  /\ loc' = [loc EXCEPT ![c].kind = "deleteFacility",
                        ![c].coll = "facilities", ![c].docId = facilityId]
  /\ UNCHANGED <<platform, log>>
  /\ Goto(c, "deleteDoc")

\* await deleteDoc(doc(db, coll, id)): deleting a missing document succeeds.
deleteDoc(c) ==
  /\ pc[c] = "deleteDoc"
  /\ UNCHANGED <<users, notes, nextNoteId, storage, authUsers, media, loc>>
  /\ \/ /\ docs' = [d \in DocIds |->
                   IF d = loc[c].docId /\ DocAt(loc[c].coll, d)
                   THEN [docs[d] EXCEPT !.exists = FALSE]
                   ELSE docs[d]]
        /\ Issue(c, "deleteDoc", "", "")
        /\ Return(c, 0)
     \/ /\ Fail(c, "deleteDoc", PlatformError)
        /\ UNCHANGED docs

(***************************************************************************)
(* The auth service and the collection services over a platform that       *)
(* holds one admin account and one pending query.                          *)
(***************************************************************************)
AdminAccount == [uid |-> "a1", email |-> <<"a">> \o vrsec]

InitServices ==
  /\ users = [u \in UIDs |->
               IF u = "a1" THEN UserDoc("admin", <<"a">> \o vrsec) ELSE NoUser]
  /\ notes = [n \in NoteIds |-> NoNote]
  /\ nextNoteId = 1
  /\ storage = [f \in AllPaths |-> 0]
  /\ authUsers = {AdminAccount}
  /\ media = {}
  /\ docs = [NoDocs EXCEPT ![1] =
               [created |-> TRUE, exists |-> TRUE, coll |-> "queries",
                status |-> "pending", date |-> 0]]
  /\ InitCalls

NextAuth ==
  \/ \E c \in Calls, e \in Emails : signUpStudent(c, e)
  \/ \E c \in Calls, e \in Emails : createAdmin(c, e)
  \/ \E c \in Calls, e \in Emails : signIn(c, e)
  \/ \E c \in Calls : createUserWithEmailAndPassword(c)
  \/ \E c \in Calls : updateProfile(c)
  \/ \E c \in Calls : setDoc(c)
  \/ \E c \in Calls : signInWithEmailAndPassword(c)
  \/ \E c \in Calls : getUserDoc(c)

SpecAuth == InitServices /\ [][NextAuth]_vars

NextCrud ==
  \/ \E c \in Calls : createFacility(c)
  \/ \E c \in Calls, dt \in EventDates : createEvent(c, dt)
  \/ \E c \in Calls : createQuery(c)
  \/ \E c \in Calls : addDoc(c)
  \/ \E c \in Calls, d \in DocIds, st \in Statuses : updateQueryStatus(c, d, st)
  \/ \E c \in Calls, d \in DocIds : markQueryCompleted(c, d)
  \/ \E c \in Calls : updateDoc(c)
  \/ \E c \in Calls, d \in DocIds : deleteEvent(c, d)
  \/ \E c \in Calls, d \in DocIds : deleteFacility(c, d)
  \/ \E c \in Calls : deleteDoc(c)

NextServices == NextAuth \/ NextCrud

SpecServices == InitServices /\ [][NextServices]_vars

(***************************************************************************)
(* Queries over a collection: where(...), orderBy(...), getDocs.           *)
(***************************************************************************)
\* The members of S in ascending order of Key; documents with equal keys
\* come in the order of their ids.
RECURSIVE OrderAsc(_, _)
OrderAsc(S, Key) ==
  IF S = {} THEN <<>>
  ELSE LET m == CHOOSE x \in S :
                  \A y \in S : Key[x] < Key[y] \/ (Key[x] = Key[y] /\ x <= y)
       IN <<m>> \o OrderAsc(S \ {m}, Key)

\* The members of S in descending order of Key.
RECURSIVE OrderDesc(_, _)
OrderDesc(S, Key) ==
  IF S = {} THEN <<>>
  ELSE LET m == CHOOSE x \in S :
                  \A y \in S : Key[x] > Key[y] \/ (Key[x] = Key[y] /\ x <= y)
       IN <<m>> \o OrderDesc(S \ {m}, Key)

\* where('date', '>=', today)
Upcoming(today) ==
  {d \in DocIds : DocAt("events", d) /\ docs[d].date >= today}

\* getUpcomingEvents() up to await getDocs(q); today is the day of the
\* caller's clock, new Date().toISOString().split('T')[0].
getUpcomingEvents(c, today) ==
  /\ pc[c] = "idle"
  /\ loc' = [loc EXCEPT ![c].kind = "getUpcomingEvents",
                        ![c].coll = "events", ![c].today = today]
  /\ UNCHANGED <<platform, log>>
  /\ Goto(c, "getDocs")

\* const querySnapshot = await getDocs(q); return querySnapshot.docs.map(...)
getUpcomingDocs(c) ==
  /\ pc[c] = "getDocs"
  /\ loc[c].kind = "getUpcomingEvents"
  /\ UNCHANGED platform
  /\ \/ /\ loc' = [loc EXCEPT ![c].rows =
                    OrderAsc(Upcoming(loc[c].today),
                             [d \in DocIds |-> docs[d].date])]
        /\ Issue(c, "getDocs", "", "")
        /\ Return(c, 0)
     \/ /\ Fail(c, "getDocs", PlatformError)
        /\ UNCHANGED loc

\* The events collection holds any events.
EventDocs ==
  [DocIds -> {NoDoc} \cup
     {[created |-> TRUE, exists |-> TRUE, coll |-> "events", status |-> "",
       date |-> dt] : dt \in EventDates}]

InitEvents ==
  /\ users = InitUsers
  /\ notes = [n \in NoteIds |-> NoNote]
  /\ nextNoteId = 1
  /\ storage = [f \in AllPaths |-> 0]
  /\ authUsers = {}
  /\ media = {}
  /\ docs \in EventDocs
  /\ InitCalls

NextEvents ==
  \/ \E c \in Calls, dt \in EventDates : createEvent(c, dt)
  \/ \E c \in Calls : addDoc(c)
  \/ \E c \in Calls, d \in DocIds : deleteEvent(c, d)
  \/ \E c \in Calls : deleteDoc(c)
  \/ \E c \in Calls, t \in EventDates : getUpcomingEvents(c, t)
  \/ \E c \in Calls : getUpcomingDocs(c)

SpecEvents == InitEvents /\ [][NextEvents]_vars

(***************************************************************************)
(* UserService: updateUser, getLeaderboard.                                *)
(***************************************************************************)
\* The updateData a caller may pass to updateUser: one field and its value.
\* A user document has no rank field unless an update writes one (0: none).
UpdateData ==
  {[field |-> f, value |-> v] : f \in {"points", "rank"}, v \in {5, 20}}

\* updateUser(uid, updateData) up to await updateDoc(userRef, updateData).
updateUser(c, uid, updateData) ==
  /\ pc[c] = "idle"
  /\ loc' = [loc EXCEPT ![c].kind = "updateUser", ![c].userId = uid,
                        ![c].updateData = updateData]
  /\ UNCHANGED <<platform, log>>
  /\ Goto(c, "updateUserDoc")

\* await updateDoc(userRef, updateData)
updateUserDoc(c) ==
  /\ pc[c] = "updateUserDoc"
  /\ UNCHANGED <<notes, nextNoteId, storage, authUsers, media, docs, loc>>
  /\ \/ /\ users[loc[c].userId].exists
        /\ users' = [users EXCEPT ![loc[c].userId] =
             IF loc[c].updateData.field = "points"
             THEN [@ EXCEPT !.points = loc[c].updateData.value,
                            !.ver = @ + 1]
             ELSE [@ EXCEPT !.rank = loc[c].updateData.value,
                            !.ver = @ + 1]]
        /\ Issue(c, "updateDoc", loc[c].userId, "")
        /\ Return(c, 0)
     \/ /\ ~users[loc[c].userId].exists
        /\ Fail(c, "updateDoc", "not-found")
        /\ UNCHANGED users
     \/ /\ Fail(c, "updateDoc", PlatformError)
        /\ UNCHANGED users

\* The order of the document ids of the users collection.
UidSeq == <<"a1", "g1", "u1", "u2">>

\* where('role', '==', 'student'), orderBy('points', 'desc'): the ids.
StudentsByPoints ==
  LET S == {i \in 1..Len(UidSeq) :
              users[UidSeq[i]].exists /\ users[UidSeq[i]].role = "student"}
      q == OrderDesc(S, [i \in 1..Len(UidSeq) |-> users[UidSeq[i]].points])
  IN [k \in 1..Len(q) |-> UidSeq[q[k]]]

\* limit(limitCount)
Limit(q, limitCount) ==
  IF Len(q) <= limitCount THEN q ELSE SubSeq(q, 1, limitCount)

\* (doc, index) => ({ id: doc.id, rank: index + 1, ...doc.data() }): a field
\* of the document replaces the field of the same name written before the
\* spread.  index is counted from 1 here.
LeaderboardRow(id, index) ==
  [id |-> id,
   rank |-> IF users[id].rank # 0 THEN users[id].rank ELSE index,
   points |-> users[id].points, role |-> users[id].role]

LimitCounts == {1, 2, 3}

\* getLeaderboard(limitCount) up to await getDocs(q).
getLeaderboard(c, limitCount) ==
  /\ pc[c] = "idle"
  /\ loc' = [loc EXCEPT ![c].kind = "getLeaderboard",
                        ![c].limitCount = limitCount]
  /\ UNCHANGED <<platform, log>>
  /\ Goto(c, "getDocs")

\* const querySnapshot = await getDocs(q); return querySnapshot.docs.map(...)
getLeaderboardDocs(c) ==
  /\ pc[c] = "getDocs"
  /\ loc[c].kind = "getLeaderboard"
  /\ UNCHANGED platform
  /\ \/ /\ LET q == Limit(StudentsByPoints, loc[c].limitCount)
           IN loc' = [loc EXCEPT ![c].rows =
                        [k \in 1..Len(q) |-> LeaderboardRow(q[k], k)]]
        /\ Issue(c, "getDocs", "", "")
        /\ Return(c, 0)
     \/ /\ Fail(c, "getDocs", PlatformError)
        /\ UNCHANGED loc

\* The users collection: three students with any points, and an admin.
UserPoints == {0, 10, 20}

InitLeaderboard ==
  /\ users \in {[u \in UIDs |->
                  IF u \in {"u1", "u2", "g1"}
                  THEN [UserDoc("student", <<"s">> \o vrsec)
                          EXCEPT !.points = p[u]]
                  ELSE UserDoc("admin", <<"a">> \o vrsec)] :
                p \in [{"u1", "u2", "g1"} -> UserPoints]}
  /\ notes = [n \in NoteIds |-> NoNote]
  /\ nextNoteId = 1
  /\ storage = [f \in AllPaths |-> 0]
  /\ authUsers = {}
  /\ media = {}
  /\ docs = NoDocs
  /\ InitCalls

NextLeaderboard ==
  \/ \E c \in Calls, u \in UIDs, ud \in UpdateData : updateUser(c, u, ud)
  \/ \E c \in Calls : updateUserDoc(c)
  \/ \E c \in Calls, n \in LimitCounts : getLeaderboard(c, n)
  \/ \E c \in Calls : getLeaderboardDocs(c)

SpecLeaderboard == InitLeaderboard /\ [][NextLeaderboard]_vars

(***************************************************************************)
(* QueryService: getQueriesByStatus, getPendingQueries.                    *)
(***************************************************************************)
\* Mutant of QueriesByStatus: the status is not tested.
QueriesByStatus_all(status) == {d \in DocIds : DocAt("queries", d)}

\* where('status', '==', status)
QueriesByStatus(status) ==
  {d \in DocIds : DocAt("queries", d) /\ docs[d].status = status}

\* getPendingQueries(): return await this.getQueriesByStatus('pending'), up
\* to await getDocs(q).
getPendingQueries(c) ==
  /\ pc[c] = "idle"
  /\ loc' = [loc EXCEPT ![c].kind = "getPendingQueries",
                        ![c].coll = "queries", ![c].status = "pending"]
  /\ UNCHANGED <<platform, log>>
  /\ Goto(c, "getDocs")

\* const querySnapshot = await getDocs(q); return querySnapshot.docs.map(...)
\* orderBy('createdAt', 'desc'): addDoc gives ids out in the order of the
\* server's timestamps, so the order of createdAt is the order of the ids.
getQueryDocs(c) ==
  /\ pc[c] = "getDocs"
  /\ loc[c].kind = "getPendingQueries"
  /\ UNCHANGED platform
  /\ \/ /\ loc' = [loc EXCEPT ![c].rows =
                    OrderDesc(QueriesByStatus(loc[c].status),
                              [d \in DocIds |-> d])]
        /\ Issue(c, "getDocs", "", "")
        /\ Return(c, 0)
     \/ /\ Fail(c, "getDocs", PlatformError)
        /\ UNCHANGED loc

\* The queries collection after createQuery and markQueryCompleted calls.
QueryDocs ==
  [DocIds -> {NoDoc} \cup
     {[created |-> TRUE, exists |-> TRUE, coll |-> "queries", status |-> st,
       date |-> 0] : st \in Statuses}]

InitQueries ==
  /\ users = InitUsers
  /\ notes = [n \in NoteIds |-> NoNote]
  /\ nextNoteId = 1
  /\ storage = [f \in AllPaths |-> 0]
  /\ authUsers = {}
  /\ media = {}
  /\ docs \in QueryDocs
  /\ InitCalls

NextQueries ==
  \/ \E c \in Calls : createQuery(c)
  \/ \E c \in Calls : addDoc(c)
  \/ \E c \in Calls, d \in DocIds : markQueryCompleted(c, d)
  \/ \E c \in Calls : updateDoc(c)
  \/ \E c \in Calls : getPendingQueries(c)
  \/ \E c \in Calls : getQueryDocs(c)

SpecQueries == InitQueries /\ [][NextQueries]_vars

(***************************************************************************)
(* server.js: start of the process.  A call is one start of the server.    *)
(***************************************************************************)
\* process.env: FIREBASE_SERVICE_ACCOUNT_JSON is unset, parses, parses once
\* its new lines are normalised, or does not parse; each CLOUDINARY_*
\* variable is set (to a non-empty string) or not.
Envs ==
  [json : {"unset", "valid", "escaped", "invalid"},
   cloudName : BOOLEAN, apiKey : BOOLEAN, apiSecret : BOOLEAN]

\* process.exit(1)
Exit(c, code) ==
  /\ pc' = [pc EXCEPT ![c] = "exited"]
  /\ result' = [result EXCEPT ![c] =
                  [status |-> "exit", value |-> code, error |-> ""]]

\* The module is loaded with the environment env.
startup(c, env) ==
  /\ pc[c] = "idle"
  /\ loc' = [loc EXCEPT ![c] = [NoLoc EXCEPT !.kind = "startup", !.env = env]]
  /\ UNCHANGED <<platform, log>>
  /\ Goto(c, "initFirebaseAdmin")

\* The service account JSON parses, as it is or with its new lines
\* normalised.
Parses(json) == json \in {"valid", "escaped"}

\* initFirebaseAdmin() inside the try of the start: with the JSON set,
\* initializeApp with its certificate, and when that throws, with the
\* built-in service account; without the JSON, initializeApp() with the
\* default credentials.  What throws out of it ends the process.
initFirebaseAdmin(c) ==
  /\ pc[c] = "initFirebaseAdmin"
  /\ UNCHANGED <<platform, log>>
  /\ \E certOk, fallbackOk, defaultOk \in BOOLEAN :
       LET initialised ==
             IF loc[c].env.json # "unset"
             THEN (Parses(loc[c].env.json) /\ certOk) \/ fallbackOk
             ELSE defaultOk
       IN IF initialised
          THEN /\ loc' = [loc EXCEPT ![c].firebaseApp = TRUE]
               /\ Goto(c, "initCloudinary")
          ELSE /\ UNCHANGED loc
               /\ Exit(c, 1)

\* Mutant of MissingCloudinary: only all three missing count.
MissingCloudinary_all(env) ==
  ~env.cloudName /\ ~env.apiKey /\ ~env.apiSecret

\* !CLOUDINARY_CLOUD_NAME || !CLOUDINARY_API_KEY || !CLOUDINARY_API_SECRET
MissingCloudinary(env) ==
  ~env.cloudName \/ ~env.apiKey \/ ~env.apiSecret

\* initCloudinary() inside the try of the start.
initCloudinary(c) ==
  /\ pc[c] = "initCloudinary"
  /\ UNCHANGED <<platform, log>>
  /\ IF MissingCloudinary(loc[c].env)
     THEN /\ UNCHANGED loc
          /\ Exit(c, 1)
     ELSE /\ loc' = [loc EXCEPT ![c].cloudinaryConfigured = TRUE]
          /\ Goto(c, "listen")

\* The routes are set and app.listen(PORT, ...) is called.
listen(c) ==
  /\ pc[c] = "listen"
  /\ UNCHANGED <<platform, log, loc>>
  /\ Goto(c, "listening")

\* app.get('/health'): a request is served by a listening process.
health(c) ==
  /\ pc[c] = "listening"
  /\ ~loc[c].served
  /\ loc' = [loc EXCEPT ![c].served = TRUE]
  /\ UNCHANGED <<platform, log, pc, result>>

NextStartup ==
  \/ \E c \in Calls, env \in Envs : startup(c, env)
  \/ \E c \in Calls : initFirebaseAdmin(c)
  \/ \E c \in Calls : initCloudinary(c)
  \/ \E c \in Calls : listen(c)
  \/ \E c \in Calls : health(c)

SpecStartup == InitServer /\ [][NextStartup]_vars

(***************************************************************************)
(* AuthService.addUserPoints                                               *)
(***************************************************************************)
PointsToAdd == {5, 10}

\* addUserPoints(uid, points) up to await getDoc(userRef).
addUserPoints(c, uid, points) ==
  /\ pc[c] = "idle"
  /\ loc' = [loc EXCEPT ![c] =
               [NoLoc EXCEPT !.kind = "addUserPoints", !.userId = uid,
                             !.points = points]]
  /\ UNCHANGED <<platform, log>>
  /\ Goto(c, "pointsGetDoc")

\* const userDoc = await getDoc(userRef); if (userDoc.exists()) { ... }
pointsGetDoc(c) ==
  /\ pc[c] = "pointsGetDoc"
  /\ UNCHANGED platform
  /\ \/ /\ loc' = [loc EXCEPT ![c].userData = users[loc[c].userId]]
        /\ Issue(c, "getDoc", loc[c].userId, "")
        /\ IF users[loc[c].userId].exists
           THEN Goto(c, "pointsUpdateDoc")
           ELSE Return(c, 0)
     \/ /\ Fail(c, "getDoc", PlatformError)
        /\ UNCHANGED loc

\* await updateDoc(userRef, { points: (currentData.points || 0) + points,
\* notesUploaded: (currentData.notesUploaded || 0) + 1 }): the values come
\* from the document as getDoc read it.
pointsUpdateDoc(c) ==
  /\ pc[c] = "pointsUpdateDoc"
  /\ UNCHANGED <<notes, nextNoteId, storage, authUsers, media, docs, loc>>
  /\ \/ /\ users[loc[c].userId].exists
        /\ users' = [users EXCEPT ![loc[c].userId] =
             [@ EXCEPT !.points = loc[c].userData.points + loc[c].points,
                       !.notesUploaded = loc[c].userData.notesUploaded + 1,
                       !.ver = @ + 1]]
        /\ Issue(c, "updateDoc", loc[c].userId, "")
        /\ Return(c, 0)
     \/ /\ Fail(c, "updateDoc", PlatformError)
        /\ UNCHANGED users

NextPoints ==
  \/ \E c \in Calls, u \in UIDs, p \in PointsToAdd : addUserPoints(c, u, p)
  \/ \E c \in Calls : pointsGetDoc(c)
  \/ \E c \in Calls : pointsUpdateDoc(c)

\* Two students and an admin with no points yet; g1 has no user document.
InitPoints ==
  /\ users = InitUsers
  /\ notes = [n \in NoteIds |-> NoNote]
  /\ nextNoteId = 1
  /\ storage = [f \in AllPaths |-> 0]
  /\ authUsers = {}
  /\ media = {}
  /\ docs = NoDocs
  /\ InitCalls

SpecPoints == InitPoints /\ [][NextPoints]_vars

(***************************************************************************)
(* Properties of the notes service.                                        *)
(***************************************************************************)
NotesOf(u) == {n \in NoteIds : notes[n].exists /\ notes[n].uploaderId = u}
Created == {n \in 1..MaxNotes : notes[n].exists}
Settled == \A c \in Calls : pc[c] \in {"idle", "done"}
Steps(c) == pc'[c] # pc[c]
Succeeded(c) == pc[c] = "done" /\ result[c].status = "resolved"
Last(s) == s[Len(s)]

\* C2: after any sequence of uploadNote calls by students, none in flight, a
\* student's notesUploaded is the number of notes carrying the student's
\* uploaderId, and the points are 10 for each: the note and the score were
\* written together or not at all.
C2_UploadAtomic ==
  ( /\ Settled
    /\ \A c \in Calls :
         /\ loc[c].kind \in {"none", "uploadNote"}
         /\ loc[c].kind = "uploadNote" => loc[c].uploaderRole = "student" )
  => \A u \in UIDs :
       (users[u].exists /\ users[u].role = "student")
       => /\ users[u].notesUploaded = Cardinality(NotesOf(u))
          /\ users[u].points = 10 * Cardinality(NotesOf(u))

\* C3: a deleteNote that completes on a note a student uploaded, with no
\* other call in flight, leaves the note document and the file gone and the
\* uploader's points and notesUploaded 10 and 1 lower, floored at 0.
C3_DeleteTakesPointsBack ==
  [][\A c \in Calls :
       ( /\ pc[c] = "del_commit"
         /\ pc'[c] = "done"
         /\ result'[c].status = "resolved"
         /\ loc[c].noteDoc.uploadedByRole = "student"
         /\ \A d \in Calls \ {c} : pc[d] = "idle" \/ Succeeded(d) )
       => LET n == loc[c].noteDoc
              u == n.uploaderId
          IN /\ ~notes'[loc[c].noteId].exists
             /\ storage'[n.filePath] = 0
             /\ users[u].exists
                => /\ users'[u].points = Max(0, users[u].points - 10)
                   /\ users'[u].notesUploaded =
                        Max(0, users[u].notesUploaded - 1)]_vars

\* C5: when two uploadNote calls by the same student have both completed,
\* exactly two note documents were created and the student's points and
\* notesUploaded are 20 and 2 higher than before.
C5_TwoUploads ==
  \A u \in {"u1", "u2"} :
    (\A c \in Calls :
        /\ loc[c].kind = "uploadNote"
        /\ loc[c].uploaderId = u
        /\ loc[c].uploaderRole = "student"
        /\ Succeeded(c))
    => LET before == Cardinality(NotesOf(u) \cap {0})
       IN /\ Cardinality(Created) = 2
          /\ users[u].points = 10 * before + 20
          /\ users[u].notesUploaded = before + 2

\* C6: a file whose type does not contain 'pdf' or whose size exceeds
\* 10*1024*1024 is rejected in the very step of the call, before any platform
\* call, with storage, notes and users unchanged; any other file, one of
\* exactly 10*1024*1024 bytes included, passes on to uploadBytes.
ValidationErrors ==
  {"Only PDF files are allowed", "File size should not exceed 10MB"}

C6_PdfOnlyMax10MB ==
  [][\A c \in Calls :
       (pc[c] = "idle" /\ Steps(c) /\ loc'[c].kind = "uploadNote")
       => LET f == loc'[c].file
          IN IF ~includes(f.type, pdf) \/ f.size > 10 * 1024 * 1024
             THEN /\ pc'[c] = "done"
                  /\ result'[c].status = "rejected"
                  /\ result'[c].error \in ValidationErrors
                  /\ log'[c] = <<>>
                  /\ platform' = platform
             ELSE pc'[c] = "uploadBytes"]_vars

C6_Witness ==
  \E c, d \in Calls :
    /\ loc[c].file.size = 10 * 1024 * 1024
    /\ Succeeded(c)
    /\ notes[result[c].value].exists
    /\ loc[d].file.size = 10 * 1024 * 1024 + 1
    /\ includes(loc[d].file.type, pdf)
    /\ pc[d] = "done"
    /\ result[d].error = "File size should not exceed 10MB"

\* C8 as amended: a deleteNote whose caller is neither the note's uploader
\* nor an admin ends at the authorization check, having issued only the two
\* reads and changed nothing: with 'You are not authorized to delete this
\* note' when the caller has a user document, with 'User data not found'
\* when it has none.  A deleteNote of a note that does not exist ends with
\* 'Note not found', having changed nothing.
OnlyReads(lg) == \A i \in 1..Len(lg) : lg[i].op = "getDoc"

NotOwnerNorAdmin(c) ==
  /\ loc[c].noteDoc.uploaderId # loc[c].userId
  /\ users[loc[c].userId].role # "admin"

ReadDone(c, label) ==
  pc[c] = label /\ Steps(c) /\ Last(log'[c]).err = ""

NoteNotFound(c) ==
  (ReadDone(c, "getNoteById") /\ ~notes[loc[c].noteId].exists)
  => /\ pc'[c] = "done"
     /\ result'[c] = Rejected("Note not found")
     /\ OnlyReads(log'[c])
     /\ platform' = platform

C8_Unauthorized ==
  [][\A c \in Calls :
       /\ (ReadDone(c, "getCurrentUserData") /\ NotOwnerNorAdmin(c))
          => /\ pc'[c] = "done"
             /\ result'[c] =
                  Rejected(IF users[loc[c].userId].exists
                           THEN "You are not authorized to delete this note"
                           ELSE "User data not found")
             /\ OnlyReads(log'[c])
             /\ platform' = platform
       /\ NoteNotFound(c)]_vars

\* C8 as claimed: the caller who is neither uploader nor admin always gets
\* 'You are not authorized to delete this note'.
C8_AsClaimed ==
  [][\A c \in Calls :
       /\ (ReadDone(c, "getCurrentUserData") /\ NotOwnerNorAdmin(c))
          => /\ pc'[c] = "done"
             /\ result'[c] =
                  Rejected("You are not authorized to delete this note")
             /\ OnlyReads(log'[c])
             /\ platform' = platform
       /\ NoteNotFound(c)]_vars

C8_Witness ==
  \E c, d \in Calls :
    /\ loc[c].kind = "deleteNote"
    /\ result[c] = Rejected("You are not authorized to delete this note")
    /\ users[loc[c].userId].role = "student"
    /\ notes[loc[c].noteId] = loc[c].noteDoc
    /\ loc[d].kind = "deleteNote"
    /\ result[d] = Rejected("Note not found")

Destroys(c) == {i \in 1..Len(log[c]) : log[c][i].op = "destroy"}

\* C1: a request invokes the media host's destroy at most once, and only
\* when it carried a Bearer token that verified, the note named by noteId
\* exists with a non-empty cloudinaryPublicId, and the verified caller is the
\* admin (token email equals ADMIN_EMAIL ignoring case) or the owner (token
\* uid equals the note's uploaderId); destroy gets that note's
\* cloudinaryPublicId.
C1_DestroyOnlyIfAuthorized ==
  \A c \in Calls :
    /\ Cardinality(Destroys(c)) <= 1
    /\ Destroys(c) # {}
       => LET h == loc[c].authHeader
              t == BearerToken(h)
              n == loc[c].noteId
          IN /\ BearerMatch(h)
             /\ \E k \in IssuedTokens :
                  /\ k.token = t
                  /\ n \in NoteIds
                  /\ notes[n].exists
                  /\ notes[n].cloudinaryPublicId \notin {Undefined, ""}
                  /\ \/ toLowerCase(k.email) = toLowerCase(AdminEmailEnv)
                     \/ k.uid = notes[n].uploaderId
                  /\ \A i \in Destroys(c) :
                       log[c][i].arg = notes[n].cloudinaryPublicId

C1_Witness ==
  \E c \in Calls :
    /\ Destroys(c) # {}
    /\ result[c].value = 200
    /\ loc[c].decoded.uid = "u1"
    /\ loc[c].noteDoc.uploaderId = "u1"

\* C4: for every caller and every note the endpoint's check (token email is
\* ADMIN_EMAIL, or token uid is the note's uploaderId) grants deletion
\* exactly when deleteNote's check (role 'admin', or userId is the note's
\* uploaderId) grants it.
C4_AsClaimed ==
  \A c \in Calls : pc[c] = "done" => loc[c].grantServer = loc[c].grantService

(***************************************************************************)
(* Properties of the auth service and the collection services.             *)
(***************************************************************************)
AuthKinds == {"signUpStudent", "createAdmin", "signIn"}
ValidationError(kind) ==
  IF kind = "signUpStudent" THEN StudentsOnly ELSE VrsecOnly

\* C7: signUpStudent, createAdmin and signIn called with an email that, in
\* lower case, does not end in '@vrsec.ac.in' reject with their validation
\* error before any call to the auth provider or the database is made; every
\* user document that exists has a lower-case email ending in
\* '@vrsec.ac.in'.
C7_VrsecOnly ==
  /\ \A c \in Calls :
       (/\ loc[c].kind \in AuthKinds
        /\ ~endsWith(toLowerCase(loc[c].email), vrsec))
       => /\ pc[c] = "done"
          /\ result[c] = Rejected(ValidationError(loc[c].kind))
          /\ log[c] = <<>>
  /\ \A u \in UIDs :
       users[u].exists
       => /\ users[u].email = toLowerCase(users[u].email)
          /\ endsWith(users[u].email, vrsec)

\* A mixed-case address was signed up and its document written, while a
\* call with the domain inside the address was rejected.
C7_Witness ==
  \E c, d \in Calls :
    /\ loc[c].kind = "signUpStudent" /\ Succeeded(c)
    /\ loc[c].email = <<"S">> \o VRSEC
    /\ users[loc[c].userId].exists
    /\ loc[d].kind = "signIn"
    /\ loc[d].email = <<"s">> \o vrsec \o <<".", "c">>
    /\ result[d] = Rejected(VrsecOnly)

Failed(c) == log[c] # <<>> /\ Last(log[c]).err # ""

\* C10: the step in which a platform call of a service method fails changes
\* nothing on the platform and ends the method, rejected with the error the
\* platform call raised; a method whose platform call failed issues no
\* further platform call (no retry, no write) and its result stays.
C10_Step ==
  \A c \in Calls :
    /\ (Len(log'[c]) > Len(log[c]) /\ Last(log'[c]).err # "")
       => /\ platform' = platform
          /\ pc'[c] = "done"
          /\ result'[c] = Rejected(Last(log'[c]).err)
    /\ Failed(c)
       => /\ log'[c] = log[c]
          /\ pc'[c] = "done"
          /\ result'[c] = result[c]

C10_PassThrough == [][C10_Step]_vars

C10_Witness ==
  \E c, d \in Calls :
    /\ loc[c].kind = "updateQueryStatus" /\ Failed(c)
    /\ result[c] = Rejected(PlatformError)
    /\ docs[loc[c].docId].exists /\ docs[loc[c].docId].status = "pending"
    /\ loc[c].status = "completed"
    /\ loc[d].kind = "createFacility" /\ Failed(d) /\ pc[d] = "done"

(***************************************************************************)
(* Properties of the queries over the collections.                         *)
(***************************************************************************)
Range(q) == {q[i] : i \in 1..Len(q)}

\* C11: a getUpcomingEvents call that resolves returns exactly the events
\* of the collection whose date is after the caller's today, in ascending
\* order of date.
C11_UpcomingAfterToday ==
  [][\A c \in Calls :
       (/\ pc[c] = "getDocs" /\ loc[c].kind = "getUpcomingEvents"
        /\ pc'[c] = "done" /\ result'[c].status = "resolved")
       => /\ Range(loc'[c].rows) =
               {d \in DocIds : /\ docs[d].exists /\ docs[d].coll = "events"
                               /\ docs[d].date > loc[c].today}
          /\ \A i, j \in 1..Len(loc'[c].rows) :
               i < j => docs[loc'[c].rows[i]].date <= docs[loc'[c].rows[j]].date
    ]_vars

\* C12: a getLeaderboard(n) call that resolved returned at most n users, all
\* with role 'student', in descending order of points, the i-th of them
\* carrying rank i.
C12_Leaderboard ==
  \A c \in Calls :
    (loc[c].kind = "getLeaderboard" /\ Succeeded(c))
    => LET rows == loc[c].rows
       IN /\ Len(rows) <= loc[c].limitCount
          /\ \A i \in 1..Len(rows) :
               rows[i].role = "student" /\ rows[i].rank = i
          /\ \A i, j \in 1..Len(rows) :
               i < j => rows[i].points >= rows[j].points

IsQuery(ds, d) == ds[d].exists /\ ds[d].coll = "queries"

C13_Status ==
  \A d \in DocIds : IsQuery(docs, d) => docs[d].status \in Statuses

C13_Step ==
  /\ \A d \in DocIds :
       \* createQuery stores 'pending'
       /\ (~IsQuery(docs, d) /\ IsQuery(docs', d))
          => docs'[d].status = "pending"
       \* completed stays completed
       /\ (IsQuery(docs, d) /\ docs[d].status = "completed")
          => IsQuery(docs', d) /\ docs'[d].status = "completed"
  /\ \A c \in Calls :
       \* markQueryCompleted completes its query and no other
       /\ (/\ pc[c] = "updateDoc" /\ loc[c].kind = "markQueryCompleted"
           /\ pc'[c] = "done" /\ result'[c].status = "resolved")
          => /\ docs'[loc[c].docId].status = "completed"
             /\ \A d \in DocIds \ {loc[c].docId} : docs'[d] = docs[d]
       \* getPendingQueries returns the queries not completed
       /\ (/\ pc[c] = "getDocs" /\ loc[c].kind = "getPendingQueries"
           /\ pc'[c] = "done" /\ result'[c].status = "resolved")
          => Range(loc'[c].rows) =
               {d \in DocIds : IsQuery(docs, d) /\ docs[d].status # "completed"}

\* C13: createQuery stores status 'pending'; after createQuery and
\* markQueryCompleted calls every query is 'pending' or 'completed'; a
\* completed query stays completed, so marking it again leaves its status;
\* getPendingQueries returns exactly the queries not completed.
C13_PendingThenCompleted == []C13_Status /\ [][C13_Step]_vars

\* One query has been marked completed while another is pending, and
\* getPendingQueries returned the pending one alone.
C13_Witness ==
  \E c, e \in Calls :
    /\ loc[c].kind = "markQueryCompleted" /\ Succeeded(c)
    /\ loc[e].kind = "getPendingQueries" /\ Succeeded(e)
    /\ Len(loc[e].rows) = 1
    /\ loc[e].rows[1] # loc[c].docId
    /\ docs[loc[e].rows[1]].status = "pending"

(***************************************************************************)
(* The file names of uploadNote.                                           *)
(***************************************************************************)
Uploaded(c) ==
  /\ loc[c].kind = "uploadNote"
  /\ \E i \in 1..Len(log[c]) :
       log[c][i].op = "uploadBytes" /\ log[c][i].err = ""

\* C14: two distinct uploadNote calls that stored their files stored them
\* under distinct storage paths, so neither wrote over the other's file.
C14_UniqueFileName ==
  \A c, e \in Calls :
    (c # e /\ Uploaded(c) /\ Uploaded(e)) => loc[c].filePath # loc[e].filePath

(***************************************************************************)
(* More properties of the endpoint.                                        *)
(***************************************************************************)
Bearer == <<"b", "e", "a", "r", "e", "r">>

\* The header reads 'Bearer', in any case, then white space, then a token of
\* at least one character.
HasBearerToken(h) ==
  \E k \in 7..(Len(h) - 1) :
    /\ toLowerCase(SubSeq(h, 1, 6)) = Bearer
    /\ \A i \in 7..k : h[i] \in {" ", "\t"}

\* C15: a request whose Authorization header is absent or is not 'Bearer',
\* in any case, white space and a token is answered 401 with no token
\* verification, no database read and no call of the media host.
C15_NoBearer401 ==
  \A c \in Calls :
    (loc[c].kind = "deleteNoteFile" /\ ~HasBearerToken(loc[c].authHeader))
    => /\ pc[c] = "done"
       /\ result[c].value = 401
       /\ log[c] = <<>>

C15_Witness ==
  \E c, e \in Calls :
    /\ loc[c].authHeader = <<"B", "e", "a", "r", "e", "r", "1", "1">>
    /\ result[c].value = 401
    /\ loc[e].authHeader = <<>>
    /\ result[e].value = 401

\* The response of a finished request.
Answer(c, code, text, calls) ==
  /\ result[c].value = code
  /\ result[c].error = text
  /\ Len(log[c]) = calls

\* The error of the i-th platform call of the request ("": none).
ErrorOf(c, i) == IF i <= Len(log[c]) THEN log[c][i].err ELSE ""

\* The platform call the request made as its i-th failed.
CallFailed(c, i) ==
  /\ Len(log[c]) = i
  /\ log[c][i].err # ""
  /\ result[c].value = 500
  /\ result[c].error = log[c][i].err

\* C16: the checks of a request run in the order Bearer header (401), token
\* verification, noteId (400), note exists (404), cloudinaryPublicId (400),
\* admin or owner (403), destroy, and the first that fails gives the
\* response; a token that fails verification gives 500 with the verifier's
\* message, whatever noteId is, after no other platform call.
C16_CheckOrder ==
  \A c \in Calls :
    (loc[c].kind = "deleteNoteFile" /\ pc[c] = "done")
    => LET h == loc[c].authHeader
           t == BearerToken(h)
           n == loc[c].noteId
       IN IF ~HasBearerToken(h)
          THEN Answer(c, 401, "Missing Authorization Bearer token", 0)
          ELSE IF ~(\E k \in IssuedTokens : k.token = t)
          THEN /\ Answer(c, 500, "auth/argument-error", 1)
               /\ log[c][1].op = "verifyIdToken"
          ELSE IF ErrorOf(c, 1) # "" THEN CallFailed(c, 1)
          ELSE IF n = NoNoteId THEN Answer(c, 400, "noteId is required", 1)
          ELSE IF ErrorOf(c, 2) # "" THEN CallFailed(c, 2)
          ELSE IF ~notes[n].exists THEN Answer(c, 404, "Note not found", 2)
          ELSE IF notes[n].cloudinaryPublicId \in {Undefined, ""}
          THEN Answer(c, 400, "Note has no cloudinaryPublicId", 2)
          ELSE IF \A k \in IssuedTokens :
                    k.token = t =>
                      /\ toLowerCase(k.email) # toLowerCase(AdminEmailEnv)
                      /\ k.uid # notes[n].uploaderId
          THEN Answer(c, 403, "Not authorized to delete this file", 2)
          ELSE /\ Len(log[c]) = 3
               /\ log[c][3].op = "destroy"
               /\ result[c].value \in {200, 500}

\* A request with a token that does not verify and no noteId got 500, and a
\* request with a good token and no noteId got 400.
C16_Witness ==
  \E c, e \in Calls :
    /\ loc[c].noteId = NoNoteId
    /\ loc[c].authHeader = <<"B", "e", "a", "r", "e", "r", " ", "x">>
    /\ Answer(c, 500, "auth/argument-error", 1)
    /\ loc[e].noteId = NoNoteId
    /\ Answer(e, 400, "noteId is required", 1)

\* C17: a destroy the media host answered with 'ok' or 'not found' gives
\* 200 with that result, any other answer gives 500; so a request repeated
\* for the same file, both answered so by the host, succeeds both times.
C17_AbsentIsSuccess ==
  \A c \in Calls :
    (/\ loc[c].kind = "deleteNoteFile" /\ pc[c] = "done"
     /\ Destroys(c) # {} /\ Last(log[c]).err = "")
    => IF loc[c].destroyResult \in {"ok", "not found"}
       THEN result[c].value = 200 /\ result[c].error = loc[c].destroyResult
       ELSE result[c].value = 500

\* The same file was deleted twice by its owner: 'ok', then 'not found',
\* both answered 200.
C17_Witness ==
  \E c, e \in Calls :
    /\ c # e
    /\ loc[c].publicId = "p0" /\ loc[e].publicId = "p0"
    /\ loc[c].decoded.uid = "u1" /\ loc[e].decoded.uid = "u1"
    /\ loc[c].destroyResult = "ok" /\ result[c].value = 200
    /\ loc[e].destroyResult = "not found" /\ result[e].value = 200

(***************************************************************************)
(* Properties of the start of the server.                                  *)
(***************************************************************************)
C18_Inv ==
  \A c \in Calls :
    loc[c].kind = "startup"
    => /\ (pc[c] \in {"listen", "listening"} \/ loc[c].served)
          => /\ loc[c].firebaseApp /\ loc[c].cloudinaryConfigured
             /\ loc[c].env.cloudName /\ loc[c].env.apiKey
             /\ loc[c].env.apiSecret
       /\ (~loc[c].firebaseApp /\ pc[c] # "initFirebaseAdmin")
          => /\ pc[c] = "exited" /\ result[c].value = 1 /\ ~loc[c].served
       /\ (/\ ~(loc[c].env.cloudName /\ loc[c].env.apiKey
                 /\ loc[c].env.apiSecret)
           /\ pc[c] \notin {"initFirebaseAdmin", "initCloudinary"})
          => /\ pc[c] = "exited" /\ result[c].value = 1 /\ ~loc[c].served

C18_Step ==
  \A c \in Calls :
    pc[c] = "exited" => pc'[c] = "exited" /\ loc'[c] = loc[c]

Added(u) ==
  {c \in Calls : /\ loc[c].kind = "addUserPoints" /\ loc[c].userId = u
                 /\ Succeeded(c)}

RECURSIVE SumPoints(_)
SumPoints(S) ==
  IF S = {} THEN 0
  ELSE LET c == CHOOSE c \in S : TRUE
       IN loc[c].points + SumPoints(S \ {c})

\* C19: with no call in flight, a user for whom n addUserPoints calls have
\* completed has n uploaded notes and the points those calls added more
\* than at the start (none); a user without a document still has none, and
\* the calls for it completed without an error.
C19_PointsAdded ==
  Settled =>
    \A u \in UIDs :
      /\ users[u].exists
         => /\ users[u].notesUploaded = Cardinality(Added(u))
            /\ users[u].points = SumPoints(Added(u))
      /\ ~users[u].exists
         => \A c \in Calls :
              (loc[c].kind = "addUserPoints" /\ loc[c].userId = u
               /\ pc[c] = "done" /\ log[c][1].err = "")
              => Succeeded(c)

====
